---- MODULE Spec2Model ----
(***************************************************************************)
(* State-machine model of fiber/templatetags/fiber_tags.py: the show_menu  *)
(* tag (MenuHelper), the show_content tag and the show_page_content tag.   *)
(* Pages live in a nested-set forest (lft, rght, level, tree_id); the      *)
(* template tags read that store and, for show_content, may add to it.     *)
(***************************************************************************)
EXTENDS Integers, Sequences, FiniteSets, TLC

\* ------------------------------------------------------------- bounds
MaxPages == 4
MaxHidden == 1
MaxAssoc == 2

Pages == 1..MaxPages
NoPage == 0
Levels == 0..(MaxPages - 1)

Users == {"anonymous", "editor"}
NoUser == "no user in context"
MenuNames == {"main", "footer", "sitemap"}
NoExpand == "None"
ExpandValues == {NoExpand, "all", "all_descendants"}

VARIABLES
    pages,          \* Page table: id -> row (parent, lft, rght, level, tree_id, title, flags)
    helper,         \* MenuHelper fields and its copy of the context
    menu_parent,    \* MenuHelper.menu_parent
    context_data,   \* what get_context_data handed to the template
    error,          \* the exception that left the tag, if any
    pc,             \* "ready", "returned" or "raised"
    content_items,  \* ContentItem table: set of [id, name]
    page_content_items, \* PageContentItem table
    auto_create,    \* AUTO_CREATE_CONTENT_ITEMS
    tag             \* the last content tag's call and the context it returned

vars == <<pages, helper, menu_parent, context_data, error, pc,
          content_items, page_content_items, auto_create, tag>>
menu_vars == <<helper, menu_parent, context_data, error, pc>>
content_vars == <<content_items, page_content_items, auto_create, tag>>

\* ------------------------------------------------- the page store (nested sets)
Forests == {f \in [Pages -> 0..MaxPages] : \A p \in Pages : f[p] < p}

RECURSIVE Chain(_, _)
Chain(f, q) == IF q = NoPage THEN {} ELSE {q} \cup Chain(f, f[q])

Subtree(f, p) == {q \in Pages : p \in Chain(f, q)}

RECURSIVE TreeLft(_, _)
TreeLft(f, p) ==
    IF f[p] = NoPage THEN 1
    ELSE TreeLft(f, f[p]) + 1
         + 2 * Cardinality({q \in Pages : \E s \in Pages :
                               f[s] = f[p] /\ s < p /\ q \in Subtree(f, s)})

TreeRght(f, p) == TreeLft(f, p) + 2 * Cardinality(Subtree(f, p)) - 1

TreeRoot(f, p) == CHOOSE r \in Chain(f, p) : f[r] = NoPage

TitleOf(p) == IF p = 1 THEN "main" ELSE IF p = 2 THEN "footer" ELSE "page"

PageRow(f, p) ==
    [parent |-> f[p], lft |-> TreeLft(f, p), rght |-> TreeRght(f, p),
     level |-> Cardinality(Chain(f, p)) - 1, tree_id |-> TreeRoot(f, p),
     title |-> TitleOf(p), show_in_menu |-> TRUE, public_for |-> Users]

\* ------------------------------------------------------------ MenuHelper
NoHelper ==
    [menu_name |-> "", min_level |-> 1, max_level |-> 0, expand |-> NoExpand,
     fiber_page |-> NoPage, user |-> NoUser]

NoContextData == [present |-> FALSE, fiber_menu_pages |-> <<>>, fiber_menu_parent_page |-> NoPage]
NoError == [type |-> "", message |-> <<>>]

filter_min_level(pgs, h, menu_pages) ==
    {p \in menu_pages : pgs[p].level >= h.min_level}

is_public_for_user(pgs, p, user) == user \in pgs[p].public_for

\* filter_for_user without the permission check.
filter_for_user_flag_only(pgs, h, menu_pages) ==
    {p \in menu_pages : pgs[p].show_in_menu}

filter_for_user(pgs, h, menu_pages) ==
    LET user == IF h.user = NoUser THEN "anonymous" ELSE h.user
    IN {p \in menu_pages : pgs[p].show_in_menu /\ is_public_for_user(pgs, p, user)}

RootMatches(pgs, h) ==
    {p \in Pages : pgs[p].title = h.menu_name /\ pgs[p].parent = NoPage}

\* get_root without the parent=None condition.
get_root_any_level(pgs, h) ==
    LET found == {p \in Pages : pgs[p].title = h.menu_name}
    IN IF found = {}
       THEN [ok |-> FALSE, page |-> NoPage,
             error |-> [type |-> "Page.DoesNotExist",
                        message |-> <<"Menu does not exist.\nNo top-level page found with the title '",
                                      h.menu_name, "'.">>]]
       ELSE IF Cardinality(found) > 1
       THEN [ok |-> FALSE, page |-> NoPage,
             error |-> [type |-> "Page.MultipleObjectsReturned", message |-> <<>>]]
       ELSE [ok |-> TRUE, page |-> CHOOSE p \in found : TRUE, error |-> NoError]

get_root(pgs, h) ==
    LET found == RootMatches(pgs, h)
    IN IF found = {}
       THEN [ok |-> FALSE, page |-> NoPage,
             error |-> [type |-> "Page.DoesNotExist",
                        message |-> <<"Menu does not exist.\nNo top-level page found with the title '",
                                      h.menu_name, "'.">>]]
       ELSE IF Cardinality(found) > 1
       THEN [ok |-> FALSE, page |-> NoPage,
             error |-> [type |-> "Page.MultipleObjectsReturned", message |-> <<>>]]
       ELSE [ok |-> TRUE, page |-> CHOOSE p \in found : TRUE, error |-> NoError]

is_child_of(pgs, p, node) ==
    /\ pgs[p].tree_id = pgs[node].tree_id
    /\ pgs[p].lft > pgs[node].lft
    /\ pgs[p].rght < pgs[node].rght

get_descendants(pgs, root) ==
    {p \in Pages : /\ pgs[p].tree_id = pgs[root].tree_id
                   /\ pgs[p].lft >= pgs[root].lft
                   /\ pgs[p].rght <= pgs[root].rght}

\* The while loop of lines 119-123: one queryset per page on the parent chain.
RECURSIVE sibling_qs(_, _, _)
sibling_qs(pgs, tree, p) ==
    IF pgs[p].parent = NoPage THEN <<>>
    ELSE <<{q \in tree : /\ pgs[q].level = pgs[p].level
                         /\ pgs[q].lft > pgs[pgs[p].parent].lft
                         /\ pgs[q].rght < pgs[pgs[p].parent].rght}>>
         \o sibling_qs(pgs, tree, pgs[p].parent)

\* route_siblings_children with the siblings of the current page only (no walk up).
route_siblings_children_no_walk(pgs, h, tree, current) ==
    LET route == {q \in tree : pgs[q].lft < pgs[current].lft /\ pgs[q].rght > pgs[current].rght}
        qs == sibling_qs(pgs, tree, current)
        route_siblings == IF qs = <<>> THEN {} ELSE qs[1]
        descendants == {q \in tree : pgs[q].lft > pgs[current].lft /\ pgs[q].rght < pgs[current].rght}
        children == IF h.expand # "all_descendants"
                    THEN {q \in descendants : pgs[q].level = pgs[current].level + 1}
                    ELSE descendants
    IN route \cup route_siblings \cup children

\* Lines 110-131.  reduce(operator.or_, sibling_qs) needs a non-empty list: the
\* caller only passes a current page that is_child_of(root), which has a parent.
route_siblings_children(pgs, h, tree, current) ==
    LET route == {q \in tree : pgs[q].lft < pgs[current].lft /\ pgs[q].rght > pgs[current].rght}
        qs == sibling_qs(pgs, tree, current)
        route_siblings == UNION {qs[i] : i \in DOMAIN qs}
        descendants == {q \in tree : pgs[q].lft > pgs[current].lft /\ pgs[q].rght < pgs[current].rght}
        children == IF h.expand # "all_descendants"
                    THEN {q \in descendants : pgs[q].level = pgs[current].level + 1}
                    ELSE descendants
    IN route \cup route_siblings \cup children

get_menu_for_current_page(pgs, h, root, current) ==
    LET tree == {p \in get_descendants(pgs, root) : pgs[p].level <= h.max_level}
    IN IF h.expand = "all" THEN tree
       ELSE IF pgs[current].level + 1 < h.min_level THEN {}
       ELSE route_siblings_children(pgs, h, tree, current)

\* needed_pages with max_level in place of the literal 1 of the no-expansion branch.
needed_pages_max_level(pgs, h, root) ==
    LET current == h.fiber_page
    IN IF current # NoPage /\ is_child_of(pgs, current, root)
       THEN get_menu_for_current_page(pgs, h, root, current)
       ELSE IF h.min_level = 1 /\ h.expand \in {NoExpand, "all"}
            THEN {p \in Pages : pgs[p].tree_id = pgs[root].tree_id
                                /\ pgs[p].level <= h.max_level}
            ELSE {}

needed_pages(pgs, h, root) ==
    LET current == h.fiber_page
    IN IF current # NoPage /\ is_child_of(pgs, current, root)
       THEN get_menu_for_current_page(pgs, h, root, current)
       ELSE IF h.min_level = 1
            THEN IF h.expand = NoExpand
                 THEN {p \in Pages : pgs[p].tree_id = pgs[root].tree_id /\ pgs[p].level <= 1}
                 ELSE IF h.expand = "all"
                 THEN {p \in Pages : pgs[p].tree_id = pgs[root].tree_id
                                     /\ pgs[p].level <= h.max_level}
                 ELSE {}
            ELSE {}

\* Turns the queryset into a list and binds each page's parent to the page
\* object of the list; the rows, and so the page ids kept here, are unchanged.
link_parent_objects(pgs, needed) == needed

\* list.sort on lft; the pages of one menu share a tree, so lft has no ties.
RECURSIVE sort_by_lft(_, _)
sort_by_lft(pgs, S) ==
    IF S = {} THEN <<>>
    ELSE LET first == CHOOSE p \in S : \A q \in S : pgs[p].lft <= pgs[q].lft
         IN <<first>> \o sort_by_lft(pgs, S \ {first})

\* new_menu_parent without the reset of line 93.
new_menu_parent_no_reset(pgs, h, old, menu_pages, root) ==
    IF menu_pages # <<>> THEN pgs[menu_pages[1]].parent
    ELSE IF h.min_level = 1 THEN root
    ELSE old

new_menu_parent(pgs, h, old, menu_pages, root) ==
    IF menu_pages # <<>> THEN pgs[menu_pages[1]].parent
    ELSE IF h.min_level = 1 THEN root
    ELSE NoPage

get_menu(pgs, h, old) ==
    LET r == get_root(pgs, h)
    IN IF ~r.ok
       THEN [ok |-> FALSE, error |-> r.error, menu_pages |-> <<>>, menu_parent |-> old]
       ELSE LET linked == link_parent_objects(pgs, needed_pages(pgs, h, r.page))
                kept == filter_for_user(pgs, h, filter_min_level(pgs, h, linked))
                menu_pages == sort_by_lft(pgs, kept)
            IN [ok |-> TRUE, error |-> NoError, menu_pages |-> menu_pages,
                menu_parent |-> new_menu_parent(pgs, h, old, menu_pages, r.page)]

\* --------------------------------------------------- the content tags
ContentNames == {"footer", "sidebar"}
BlockNames == {"main", "aside"}
ContentPages == {1, 2}
Sorts == {1, 2}
NoItem == 0

NoneArg == [kind |-> "None", str |-> "", page |-> NoPage]
StrArg(s) == [kind |-> "basestring", str |-> s, page |-> NoPage]
PageArg(p) == [kind |-> "Page", str |-> "", page |-> p]

NoTag ==
    [name |-> "", arg1 |-> NoneArg, arg2 |-> NoneArg, ctx_page |-> NoPage, error |-> "",
     content_item |-> NoItem, fiber_page |-> NoPage, fiber_block_name |-> "",
     fiber_content_items |-> <<>>]

NextId(rows) == Cardinality(rows) + 1

\* show_content that creates whenever auto-creation is on, found or not.
show_content_always_create(items, auto, name) ==
    LET found == {i \in items : i.name = name}
        new == [id |-> NextId(items), name |-> name]
    IN IF auto
       THEN [error |-> "", content_item |-> new.id, items |-> items \cup {new}]
       ELSE IF Cardinality(found) = 1
       THEN [error |-> "", content_item |-> (CHOOSE i \in found : TRUE).id, items |-> items]
       ELSE [error |-> "", content_item |-> NoItem, items |-> items]

show_content(items, auto, name) ==
    LET found == {i \in items : i.name = name}
        new == [id |-> NextId(items), name |-> name]
    IN IF Cardinality(found) = 1
       THEN [error |-> "", content_item |-> (CHOOSE i \in found : TRUE).id, items |-> items]
       ELSE IF Cardinality(found) > 1
       THEN [error |-> "ContentItem.MultipleObjectsReturned", content_item |-> NoItem,
             items |-> items]
       ELSE IF auto
       THEN [error |-> "", content_item |-> new.id, items |-> items \cup {new}]
       ELSE [error |-> "", content_item |-> NoItem, items |-> items]

RowOrders(S) ==
    {s \in [1..Cardinality(S) -> S] : \A i, j \in 1..Cardinality(S) : i # j => s[i] # s[j]}

\* order_by('sort'): every order of the rows that is ascending in sort; the
\* query names no second key, so rows with equal sort come in any order.
order_by_sort(rows) ==
    {s \in RowOrders(rows) : \A i, j \in DOMAIN s : i < j => s[i].sort <= s[j].sort}

\* The outcomes of show_page_content: one per order the query may return.
show_page_content(assocs, ctx_page, page_or_block_name, block_name) ==
    LET single == page_or_block_name.kind = "basestring" /\ block_name.kind = "None"
        double == page_or_block_name.kind = "Page" /\ block_name.kind = "basestring"
                  /\ block_name.str # ""
        failed(msg) == [error |-> msg, fiber_page |-> NoPage, fiber_block_name |-> "",
                        fiber_content_items |-> <<>>]
        page == IF single THEN ctx_page ELSE page_or_block_name.page
        block == IF single THEN page_or_block_name.str ELSE block_name.str
        rows == {a \in assocs : a.page = page /\ a.block_name = block}
    IN IF single /\ ctx_page = NoPage
       THEN {failed("'show_page_content' requires 'fiber_page' to be in the template context")}
       ELSE IF ~single /\ ~double
       THEN {failed("'show_page_content' received invalid arguments")}
       ELSE {[error |-> "", fiber_page |-> page, fiber_block_name |-> block,
              fiber_content_items |->
                  [i \in DOMAIN s |-> [content_item |-> s[i].content_item,
                                       page_content_item |-> s[i].id]]]
             : s \in order_by_sort(rows)}

\* ------------------------------------------------------------- actions
\* Number of visibility flags switched off in the store.
RECURSIVE HiddenFlags(_, _)
HiddenFlags(pgs, S) ==
    IF S = {} THEN 0
    ELSE LET p == CHOOSE x \in S : TRUE
         IN (IF pgs[p].show_in_menu THEN 0 ELSE 1)
            + Cardinality(Users \ pgs[p].public_for)
            + HiddenFlags(pgs, S \ {p})

InitMenu ==
    /\ \E f \in Forests : pages = [p \in Pages |-> PageRow(f, p)]
    /\ helper = NoHelper
    /\ menu_parent = NoPage
    /\ context_data = NoContextData
    /\ error = NoError
    /\ pc = "ready"
    /\ content_items = {}
    /\ page_content_items = {}
    /\ auto_create = FALSE
    /\ tag = NoTag

\* get_context_data on the helper, its argument fields bound to this call's
\* values; menu_parent still holds what an earlier call on the helper left.
get_context_data ==
    /\ pc = "ready"
    /\ \E name \in MenuNames, minl \in Levels, maxl \in Levels, exp \in ExpandValues,
          cur \in Pages \cup {NoPage}, usr \in {NoUser, "editor"} :
         LET h == [menu_name |-> name, min_level |-> minl, max_level |-> maxl,
                   expand |-> exp, fiber_page |-> cur, user |-> usr]
             r == get_menu(pages, h, menu_parent)
         IN /\ helper' = h
            /\ menu_parent' = r.menu_parent
            /\ error' = r.error
            /\ IF r.ok
               THEN /\ pc' = "returned"
                    /\ context_data' = [present |-> TRUE,
                                        fiber_menu_pages |-> r.menu_pages,
                                        fiber_menu_parent_page |-> r.menu_parent]
               ELSE /\ pc' = "raised"
                    /\ context_data' = NoContextData
    /\ UNCHANGED <<pages, content_vars>>

\* A new helper for the next tag: menu_parent starts as None (line 32).
MenuHelperInit ==
    /\ pc \in {"returned", "raised"}
    /\ pc' = "ready"
    /\ helper' = NoHelper
    /\ menu_parent' = NoPage
    /\ context_data' = NoContextData
    /\ error' = NoError
    /\ UNCHANGED <<pages, content_vars>>

\* The same helper object is kept for another call: menu_parent is not reset.
ReuseHelper ==
    /\ pc \in {"returned", "raised"}
    /\ pc' = "ready"
    /\ helper' = NoHelper
    /\ context_data' = NoContextData
    /\ error' = NoError
    /\ UNCHANGED <<pages, menu_parent, content_vars>>

SetShowInMenu ==
    /\ pc = "ready"
    /\ \E p \in Pages, b \in BOOLEAN :
         /\ pages[p].show_in_menu # b
         /\ pages' = [pages EXCEPT ![p].show_in_menu = b]
         /\ HiddenFlags(pages', Pages) <= MaxHidden
    /\ UNCHANGED <<menu_vars, content_vars>>

SetPublicFor ==
    /\ pc = "ready"
    /\ \E p \in Pages, u \in Users :
         /\ pages' = [pages EXCEPT ![p].public_for =
                         IF u \in @ THEN @ \ {u} ELSE @ \cup {u}]
         /\ HiddenFlags(pages', Pages) <= MaxHidden
    /\ UNCHANGED <<menu_vars, content_vars>>

Next ==
    \/ get_context_data
    \/ MenuHelperInit
    \/ ReuseHelper
    \/ SetShowInMenu
    \/ SetPublicFor

Spec == InitMenu /\ [][Next]_vars

InitContent ==
    /\ pages = [p \in Pages |-> PageRow([q \in Pages |-> NoPage], p)]
    /\ helper = NoHelper
    /\ menu_parent = NoPage
    /\ context_data = NoContextData
    /\ error = NoError
    /\ pc = "ready"
    /\ content_items \in {{}, {[id |-> 1, name |-> "footer"]}}
    /\ page_content_items = {}
    /\ auto_create \in BOOLEAN
    /\ tag = NoTag

ShowContent ==
    /\ \E name \in ContentNames :
         LET r == show_content(content_items, auto_create, name)
         IN /\ content_items' = r.items
            /\ tag' = [NoTag EXCEPT !.name = "show_content", !.arg1 = StrArg(name),
                                    !.error = r.error, !.content_item = r.content_item]
    /\ UNCHANGED <<pages, menu_vars, page_content_items, auto_create>>

PageContentCall(a1, a2, ctx) ==
    \E r \in show_page_content(page_content_items, ctx, a1, a2) :
        tag' = [NoTag EXCEPT !.name = "show_page_content", !.arg1 = a1, !.arg2 = a2,
                             !.ctx_page = ctx, !.error = r.error,
                             !.fiber_page = r.fiber_page,
                             !.fiber_block_name = r.fiber_block_name,
                             !.fiber_content_items = r.fiber_content_items]

ShowPageContent ==
    /\ tag.name # "show_page_content"
    /\ \E a1 \in {StrArg(b) : b \in BlockNames} \cup {PageArg(p) : p \in ContentPages},
          a2 \in {NoneArg, StrArg("")} \cup {StrArg(b) : b \in BlockNames},
          ctx \in {NoPage} \cup ContentPages :
         PageContentCall(a1, a2, ctx)
    /\ UNCHANGED <<pages, menu_vars, content_items, page_content_items, auto_create>>

\* The same template rendered again: the same tag, arguments and context.
ShowPageContentAgain ==
    /\ tag.name = "show_page_content"
    /\ PageContentCall(tag.arg1, tag.arg2, tag.ctx_page)
    /\ UNCHANGED <<pages, menu_vars, content_items, page_content_items, auto_create>>

NextRequest ==
    /\ tag # NoTag
    /\ tag' = NoTag
    /\ UNCHANGED <<pages, menu_vars, content_items, page_content_items, auto_create>>

AddPageContentItem ==
    /\ tag = NoTag
    /\ Cardinality(page_content_items) < MaxAssoc
    /\ \E p \in ContentPages, b \in BlockNames, n \in Sorts, c \in content_items :
         page_content_items' = page_content_items \cup
             {[id |-> NextId(page_content_items), page |-> p, block_name |-> b,
               sort |-> n, content_item |-> c.id]}
    /\ UNCHANGED <<pages, menu_vars, content_items, auto_create, tag>>

NextContent ==
    \/ ShowContent
    \/ ShowPageContent
    \/ ShowPageContentAgain
    \/ NextRequest
    \/ AddPageContentItem

SpecContent == InitContent /\ [][NextContent]_vars

\* ------------------------------------------------------------ the claims
\* What the claims say, stated from the parent pointers and the rows of the
\* store, independently of the operators above.
RECURSIVE ParentChain(_)
ParentChain(p) == IF p = NoPage THEN {} ELSE {p} \cup ParentChain(pages[p].parent)

Called == pc \in {"returned", "raised"}
MenuRoots == {p \in Pages : pages[p].title = helper.menu_name /\ pages[p].parent = NoPage}
MenuRoot == CHOOSE p \in MenuRoots : TRUE
Current == helper.fiber_page
CurrentInTree == Current # NoPage /\ MenuRoot \in ParentChain(Current) \ {Current}
RequestUser == IF helper.user = NoUser THEN "anonymous" ELSE helper.user
Visible(p) == pages[p].show_in_menu /\ RequestUser \in pages[p].public_for
Inside(q, p) == pages[q].lft > pages[p].lft /\ pages[q].rght < pages[p].rght
Returned == context_data.fiber_menu_pages
ReturnedSet == {Returned[i] : i \in DOMAIN Returned}

AscendingLftListOf(list, S) ==
    /\ Len(list) = Cardinality(S)
    /\ {list[i] : i \in DOMAIN list} = S
    /\ \A i, j \in DOMAIN list : i < j => pages[list[i]].lft < pages[list[j]].lft

PostProcessed(S) == {p \in S : pages[p].level >= helper.min_level /\ Visible(p)}

RestrictedSubtree ==
    {q \in Pages : MenuRoot \in ParentChain(q) /\ pages[q].level <= helper.max_level}
ClaimRoute == {q \in RestrictedSubtree : Inside(Current, q)}
ClaimRouteSiblings ==
    {q \in RestrictedSubtree :
        \E p \in ParentChain(Current) \ {MenuRoot} :
            pages[q].level = pages[p].level /\ Inside(q, pages[p].parent)}
ClaimImmediateChildren ==
    {q \in RestrictedSubtree :
        pages[q].level = pages[Current].level + 1 /\ Inside(q, Current)}

\* C1: with the current page a strict descendant of the menu root and no
\* expansion, get_menu returns exactly route U route-siblings U immediate
\* children (inside the root's subtree up to max_level), without the nodes
\* below min_level and the invisible ones, in ascending lft order.
C1_CurrentPageMenu ==
    (pc = "returned" /\ CurrentInTree /\ helper.expand = NoExpand)
        => AscendingLftListOf(Returned,
               PostProcessed(ClaimRoute \cup ClaimRouteSiblings \cup ClaimImmediateChildren))

C1_Witness ==
    /\ pc = "returned" /\ CurrentInTree /\ helper.expand = NoExpand
    /\ helper.min_level = 1
    /\ ClaimRoute \cap ReturnedSet # {}
    /\ (ClaimRouteSiblings \ {Current}) \cap ReturnedSet # {}
    /\ ClaimImmediateChildren \cap ReturnedSet # {}
    /\ \E p \in ClaimRouteSiblings : ~Visible(p)

\* C2: with no current page, or a current page that is not a strict
\* descendant of the menu root, the selected set is the level <= 1 nodes of
\* the root's tree (min_level 1, no expansion), the level <= max_level nodes
\* (min_level 1, expand "all"), and empty otherwise; the list is that set
\* after the min_level and visibility filters, sorted by lft.
RootTree == {q \in Pages : MenuRoot \in ParentChain(q)}
C2_Selected ==
    IF helper.min_level = 1 /\ helper.expand = NoExpand
    THEN {q \in RootTree : pages[q].level <= 1}
    ELSE IF helper.min_level = 1 /\ helper.expand = "all"
    THEN {q \in RootTree : pages[q].level <= helper.max_level}
    ELSE {}

C2_OutsideTreeMenu ==
    (pc = "returned" /\ ~CurrentInTree)
        => AscendingLftListOf(Returned, PostProcessed(C2_Selected))

C2_Witness ==
    /\ pc = "returned" /\ ~CurrentInTree /\ Current = MenuRoot
    /\ helper.min_level = 1 /\ helper.expand = NoExpand /\ helper.max_level = 3
    /\ Len(Returned) >= 2
    /\ \E q \in RootTree : pages[q].level = 2

\* C3: after a successful get_menu, menu_parent is the parent of the first
\* returned node, or the root when the list is empty and min_level is 1, or
\* None when the list is empty and min_level is not 1, whatever it was before.
C3_MenuParent ==
    pc = "returned"
        => /\ menu_parent = (IF Returned # <<>> THEN pages[Returned[1]].parent
                             ELSE IF helper.min_level = 1 THEN MenuRoot
                             ELSE NoPage)
           /\ context_data.fiber_menu_parent_page = menu_parent

C3_Witness ==
    /\ pc = "returned" /\ Returned = <<>> /\ helper.min_level # 1
    /\ CurrentInTree /\ menu_parent = NoPage

\* C4: hiding one more page n (show_in_menu off, or not public for the
\* request's user) changes the returned list into the same list without n.
HiddenByFlag(n) == [pages EXCEPT ![n].show_in_menu = FALSE]
HiddenForUser(n) == [pages EXCEPT ![n].public_for = @ \ {RequestUser}]
Without(list, n) == SelectSeq(list, LAMBDA p : p # n)

C4_HidingRemovesOnlyThatPage ==
    pc = "returned"
        => \A n \in Pages :
              /\ get_menu(HiddenByFlag(n), helper, NoPage).menu_pages = Without(Returned, n)
              /\ get_menu(HiddenForUser(n), helper, NoPage).menu_pages = Without(Returned, n)

C4_Witness ==
    /\ pc = "returned" /\ CurrentInTree /\ helper.user = NoUser
    /\ \E n \in ClaimRoute :
          /\ ~Visible(n) /\ pages[n].show_in_menu /\ pages[n].level >= helper.min_level
          /\ \E q \in ReturnedSet : Inside(q, n)
          /\ \E q \in ReturnedSet : pages[q].level = pages[n].level

\* C5: with no parentless page titled menu_name, the call fails with
\* Page.DoesNotExist, the message holds the menu name, and neither a menu
\* list nor a menu parent reaches the template.
C5_MissingRootRaises ==
    (Called /\ MenuRoots = {})
        => /\ pc = "raised"
           /\ error.type = "Page.DoesNotExist"
           /\ \E i \in DOMAIN error.message : error.message[i] = helper.menu_name
           /\ context_data = NoContextData

C5_Witness ==
    /\ pc = "raised" /\ MenuRoots = {}
    /\ \E p \in Pages : pages[p].title = helper.menu_name /\ pages[p].parent # NoPage
    /\ helper.min_level = 1 /\ helper.fiber_page # NoPage

\* C8: with expand none, the menu shown for a page c (the root or one of its
\* descendants) is contained in the menu shown for each child of c.
C8_DrillDownKeepsItems ==
    (pc = "returned" /\ helper.expand = NoExpand /\ (Current = MenuRoot \/ CurrentInTree))
        => \A c \in Pages :
              pages[c].parent = Current
                  => LET below == get_menu(pages, [helper EXCEPT !.fiber_page = c], NoPage).menu_pages
                     IN ReturnedSet \subseteq {below[i] : i \in DOMAIN below}

\* C8 with the depth bound of C9 respected (max_level >= 1): no item is lost.
C8_DrillDownWithinDepth ==
    helper.max_level >= 1 => C8_DrillDownKeepsItems

\* C9: every returned page has min_level <= level <= max_level.
C9_WithinDepthBounds ==
    pc = "returned"
        => \A p \in ReturnedSet :
              helper.min_level <= pages[p].level /\ pages[p].level <= helper.max_level

\* C10: when the current page is in the tree, expand is not "all" and
\* current.level + 1 < min_level, the short-circuit's empty result is what
\* route U route-siblings U children gives after post-processing.
C10_Tree == {p \in get_descendants(pages, MenuRoot) : pages[p].level <= helper.max_level}
C10_ShortCircuitLosesNothing ==
    (pc = "returned" /\ CurrentInTree /\ helper.expand # "all"
        /\ pages[Current].level + 1 < helper.min_level)
        => /\ get_menu_for_current_page(pages, helper, MenuRoot, Current) = {}
           /\ PostProcessed(route_siblings_children(pages, helper, C10_Tree, Current)) = {}

\* C10 restricted to expand none: there the short-circuit loses nothing.
C10_ShortCircuitNoExpand ==
    helper.expand = NoExpand => C10_ShortCircuitLosesNothing

\* C6: show_page_content returns one entry per association of the target
\* page and block, each the association's ContentItem with the association,
\* in ascending sort order, and equal sorts come out in the same order on
\* every call while the store is unchanged.
PageContentReturned == tag.name = "show_page_content" /\ tag.error = ""
C6_Rows ==
    {a \in page_content_items :
        a.page = tag.fiber_page /\ a.block_name = tag.fiber_block_name}
C6_Target ==
    IF tag.arg1.kind = "Page"
    THEN tag.fiber_page = tag.arg1.page /\ tag.fiber_block_name = tag.arg2.str
    ELSE tag.fiber_page = tag.ctx_page /\ tag.fiber_block_name = tag.arg1.str

C6_EntriesInSortOrder ==
    PageContentReturned
        => LET out == tag.fiber_content_items
           IN /\ C6_Target
              /\ Len(out) = Cardinality(C6_Rows)
              /\ \A a \in C6_Rows : \E i \in DOMAIN out :
                    out[i] = [content_item |-> a.content_item, page_content_item |-> a.id]
              /\ \A i, j \in DOMAIN out : i < j =>
                    \E a, b \in C6_Rows :
                        /\ a.id = out[i].page_content_item
                        /\ b.id = out[j].page_content_item
                        /\ a.sort <= b.sort

C6_SameCallSameOrder ==
    (/\ PageContentReturned
     /\ tag'.name = "show_page_content" /\ tag'.error = ""
     /\ tag'.arg1 = tag.arg1 /\ tag'.arg2 = tag.arg2 /\ tag'.ctx_page = tag.ctx_page
     /\ page_content_items' = page_content_items /\ content_items' = content_items)
        => tag'.fiber_content_items = tag.fiber_content_items

C6_PageContentOrdered == []C6_EntriesInSortOrder /\ [][C6_SameCallSameOrder]_vars

\* C7: show_content returns the item of that name and leaves the store alone
\* when it exists; returns None, creates nothing and does not fail when it
\* does not exist and auto-creation is off; creates exactly one item of that
\* name and returns it when auto-creation is on.  The store never holds two
\* items of one name.
C7_OnePerName ==
    \A n \in ContentNames : Cardinality({i \in content_items : i.name = n}) <= 1

C7_LookupStep ==
    tag'.name = "show_content"
        => LET n == tag'.arg1.str
               had == {i \in content_items : i.name = n}
           IN /\ tag'.error = ""
              /\ had # {} => /\ content_items' = content_items
                             /\ \E i \in had : tag'.content_item = i.id
              /\ (had = {} /\ ~auto_create) =>
                    /\ content_items' = content_items
                    /\ tag'.content_item = NoItem
              /\ (had = {} /\ auto_create) =>
                    \E id \in 1..(Cardinality(content_items) + 1) :
                        /\ [id |-> id, name |-> n] \notin content_items
                        /\ content_items' = content_items \cup {[id |-> id, name |-> n]}
                        /\ tag'.content_item = id

C7_NamedLookup == []C7_OnePerName /\ [][C7_LookupStep]_vars

C7_Witness ==
    /\ tag.name = "show_content" /\ auto_create
    /\ tag.arg1.str = "sidebar" /\ tag.content_item # NoItem
    /\ \E i \in content_items : i.name = "footer" /\ i.id # tag.content_item
    /\ \E i \in content_items : i.name = "sidebar" /\ i.id = tag.content_item

====
